---- MODULE Spec2Model ----
(***************************************************************************)
(* Model of the JSON-to-database importer (JSON_DB_Importer.py):           *)
(* process_folder and the functions it calls, running against a store with *)
(* transactions (pyodbc connection, autocommit off) and a batch directory  *)
(* whose file names carry the "Stored-" / "BadData-" markers.              *)
(***************************************************************************)
EXTENDS Integers, Sequences, FiniteSets, TLC

\* ------------------------------------------------------------------------
\* Bounds of the model
\* ------------------------------------------------------------------------
MaxDocs == 2          \* documents in the batch directory
MaxRuns == 2          \* invocations of main() on that directory
MaxFaults == 2        \* injected failures of the store and of shutil.move

Docs == 1..MaxDocs
Runs == 1..MaxRuns

\* ------------------------------------------------------------------------
\* Static configuration (JSON_DB_Importer.py:26-28)
\* ------------------------------------------------------------------------
PROCESSED_PREFIX == "Stored-"
FAILED_PREFIX == "BadData-"
NO_PREFIX == ""

\* ------------------------------------------------------------------------
\* Text: a label is a sequence of characters; " " is the whitespace one.
\* ------------------------------------------------------------------------
IsSpace(c) == c = " "

RECURSIVE LStrip(_)
LStrip(s) == IF s # <<>> /\ IsSpace(Head(s)) THEN LStrip(Tail(s)) ELSE s

RECURSIVE RStrip(_)
RStrip(s) == IF s # <<>> /\ IsSpace(s[Len(s)])
             THEN RStrip(SubSeq(s, 1, Len(s) - 1)) ELSE s

\* str.strip()
Strip(s) == RStrip(LStrip(s))

\* JSON values of an item's "quality_point": a string, or null
JStr(s) == [t |-> "str", s |-> s]
JNull == [t |-> "null", s |-> <<>>]

\* Python truthiness of such a value: None and "" are falsy
Truthy(v) == v.t = "str" /\ v.s # <<>>

\* str.upper(), on the letters the labels use
Upper(c) ==
    CASE c = "b" -> "B" [] c = "o" -> "O" [] c = "n" -> "N"
      [] c = "u" -> "U" [] c = "s" -> "S" [] OTHER -> c

\* sub in s
Contains(sub, s) ==
    \E i \in 0..(Len(s) - Len(sub)) : \A j \in 1..Len(sub) : s[i + j] = sub[j]

BONUS_TOKEN == <<"[", "B", "O", "N", "U", "S", "]">>

\* variant: the marker is looked for without upper()
IsBonusCaseSensitive(text) == Contains(BONUS_TOKEN, text)

\* "[BONUS]" in text.upper()
IsBonus(text) == Contains(BONUS_TOKEN, [i \in 1..Len(text) |-> Upper(text[i])])

Tone == <<"T">>
TonePadded == <<" ", "T", " ">>
BonusUpsell == <<"[", "b", "o", "n", "u", "s", "]", "U">>
Blank == <<" ">>
Empty == <<>>

\* ------------------------------------------------------------------------
\* Documents of the batch directory.  A document has a base name (which of
\* the two naming conventions it matches), the 4-digit directory it lies in
\* ("none": directly in the week folder) and a content.
\* ------------------------------------------------------------------------
IndividualName == [endsAnalysis |-> TRUE, hasCombined |-> FALSE]
CombinedName == [endsAnalysis |-> FALSE, hasCombined |-> TRUE]

Doc(name, ext, jsonOk, eval, qpa, strengths) ==
    [name |-> name, ext |-> ext, jsonOk |-> jsonOk,
     eval |-> eval, qpa |-> qpa, strengths |-> strengths]

DocShapes ==
    { Doc(IndividualName, "1001", TRUE, <<JStr(Tone), JStr(TonePadded)>>, <<>>, 0),
      Doc(IndividualName, "1001", TRUE, <<JStr(TonePadded)>>, <<>>, 0),
      Doc(CombinedName, "1002", TRUE, <<>>, <<JStr(Tone), JStr(BonusUpsell)>>, 1),
      Doc(IndividualName, "1001", FALSE, <<>>, <<>>, 0),
      Doc(IndividualName, "1001", TRUE, <<JStr(Tone), JNull>>, <<>>, 0),
      Doc(IndividualName, "none", TRUE, <<JStr(Tone)>>, <<>>, 0) }

\* documents with blank and empty labels
LabelShapes ==
    { Doc(IndividualName, "1001", TRUE, <<JStr(Blank), JStr(Tone)>>, <<>>, 0),
      Doc(CombinedName, "1001", TRUE, <<>>, <<JStr(Blank)>>, 0),
      Doc(IndividualName, "1001", TRUE, <<JStr(Empty), JStr(Tone)>>, <<>>, 0) }

\* ------------------------------------------------------------------------
\* The source root (find_latest_week_folder)
\* ------------------------------------------------------------------------
\* an entry of the root: whether it is a directory, whether its name matches
\* 'Week of (\d{4}-\d{2}-\d{2})', and the calendar date strptime reads from it
\* (0: the digits are no valid date, strptime raises ValueError)
WeekEntry(id, isDir, matches, date) ==
    [id |-> id, isDir |-> isDir, matches |-> matches, date |-> date]

\* return None
NO_FOLDER == 0

\* a root with one week folder
DefaultRoot == [state |-> "ok", entries |-> {WeekEntry(1, TRUE, TRUE, 1)}]

\* variant: a folder whose name matches is taken whatever its date
find_latest_week_folder_NoDateCheck(root_dir) ==
    IF root_dir.state # "ok" THEN {NO_FOLDER}
    ELSE LET week_folders == {e \in root_dir.entries : e.isDir /\ e.matches}
         IN IF week_folders = {} THEN {NO_FOLDER}
            ELSE {e.id : e \in {x \in week_folders : \A y \in week_folders : y.date <= x.date}}

\* variant: the folder of the earliest date is taken
find_latest_week_folder_Earliest(root_dir) ==
    IF root_dir.state # "ok" THEN {NO_FOLDER}
    ELSE LET week_folders == {e \in root_dir.entries : e.isDir /\ e.matches /\ e.date > 0}
         IN IF week_folders = {} THEN {NO_FOLDER}
            ELSE {e.id : e \in {x \in week_folders : \A y \in week_folders : x.date <= y.date}}

\* find_latest_week_folder: the folders it may return (several of the latest
\* date: the first in listing order)
find_latest_week_folder(root_dir) ==
    IF root_dir.state # "ok" THEN {NO_FOLDER}
    ELSE LET week_folders == {e \in root_dir.entries : e.isDir /\ e.matches /\ e.date > 0}
         IN IF week_folders = {} THEN {NO_FOLDER}
            ELSE {e.id : e \in {x \in week_folders : \A y \in week_folders : y.date <= x.date}}

\* parse_extlist_data: the roster, keyed by extension
\* (the line of 1003 has an empty name column)
Roster ==
    [e \in {"1001", "1003"} |->
        [full_name |-> IF e = "1001" THEN "J. Rivera" ELSE "", email |-> "jr@x", extension |-> e]]


\* process_folder:236, the details used when the roster has no entry
AgentDetails(ext) ==
    IF ext \in DOMAIN Roster
    THEN Roster[ext]
    ELSE [full_name |-> "Un-rostered Agent - " \o ext, email |-> "None", extension |-> ext]

\* ------------------------------------------------------------------------
\* State
\* ------------------------------------------------------------------------
VARIABLES
    docs,            \* the documents of the batch directory (fixed content)
    prefix,          \* the marker prefix each document's file name bears
    root,            \* the source root directory and its entries
    folderOf,        \* the entry of the root each document lies under
    base,            \* the base name of each document's file, without marker
    exists,          \* whether the document's file is on disk
    agents,          \* committed rows of Agents
    qps,             \* committed rows of QualityPointsMaster
    analyses,        \* committed rows of IndividualCallAnalyses / CombinedAnalyses
    children,        \* committed rows of the child tables
    nextAgentId,     \* identity counters of the store (not transactional)
    nextQpId,
    nextAnalysisId,
    clock,           \* datetime.now()
    pc,              \* per run: position in main / process_folder
    queue,           \* per run: files_to_process not yet visited
    cur,             \* per run: file_path of the current iteration (0: none)
    tx,              \* per run: uncommitted writes of the connection
    agentId,         \* per run: agent_id
    qpMap,           \* per run: qp_map
    analysisId,      \* per run: analysis_id / combined_id
    ts,              \* per run: the batch timestamp
    stage,           \* per run: where the current document's exception arose
    snap,            \* per run: the committed store when the document was started
    discovered,      \* per run: the documents found by discovery
    failed,          \* per run: the documents whose processing failed
    succeeded,       \* per run: the documents logged as processed and renamed
    issued,          \* <<extension, key>> pairs get_or_create_agent returned
    kept,            \* those of them returned in an import that committed
    faults,          \* injected failures so far
    aiPc,            \* AutoQA.call_ai_with_retry: position in the function
    attempt,         \* its loop variable
    aiCalls,         \* the outcomes of its calls of model.generate_content
    response,        \* what it returned
    invocations      \* how often it has been called

fsVars == <<docs, prefix, root, folderOf, base, exists>>
storeVars == <<agents, qps, analyses, children>>
idVars == <<nextAgentId, nextQpId, nextAnalysisId>>
runVars == <<pc, queue, cur, tx, agentId, qpMap, analysisId, ts>>
histVars == <<stage, snap, discovered, failed, succeeded, issued, kept>>
faultVars == <<faults>>
aiVars == <<aiPc, attempt, aiCalls, response, invocations>>
vars == <<fsVars, storeVars, idVars, clock, runVars, histVars, faultVars, aiVars>>

EmptyTx == [agents |-> {}, qps |-> {}, analyses |-> {}, children |-> {}]
EmptyMap == [x \in {} |-> 0]
Store == [agents |-> agents, qps |-> qps, analyses |-> analyses, children |-> children]

\* dict.get(key): 0 stands for None
MapGet(m, k) == IF k \in DOMAIN m THEN m[k] ELSE 0

\* the elements of a set of numbers as an ascending sequence
RECURSIVE Ascending(_)
Ascending(S) ==
    IF S = {} THEN <<>>
    ELSE LET m == CHOOSE x \in S : \A y \in S : x <= y
         IN <<m>> \o Ascending(S \ {m})

\* the state before any run: the documents, the root, where the documents
\* lie, and the number of failures counted as injected already
InitRuns(f) ==
    /\ agents = {} /\ qps = {} /\ analyses = {} /\ children = {}
    /\ nextAgentId = 1 /\ nextQpId = 1 /\ nextAnalysisId = 1
    /\ clock = 1
    /\ pc = [r \in Runs |-> "idle"]
    /\ queue = [r \in Runs |-> <<>>]
    /\ cur = [r \in Runs |-> 0]
    /\ tx = [r \in Runs |-> EmptyTx]
    /\ agentId = [r \in Runs |-> 0]
    /\ qpMap = [r \in Runs |-> EmptyMap]
    /\ analysisId = [r \in Runs |-> 0]
    /\ ts = [r \in Runs |-> 0]
    /\ stage = [r \in Runs |-> "none"]
    /\ snap = [r \in Runs |-> Store]
    /\ discovered = [r \in Runs |-> {}]
    /\ failed = [r \in Runs |-> {}]
    /\ succeeded = [r \in Runs |-> {}]
    /\ issued = {}
    /\ kept = {}
    /\ faults = f
    /\ aiPc = "idle"
    /\ attempt = 0
    /\ aiCalls = <<>>
    /\ response = "pending"
    /\ invocations = 0

\* every document on disk under a name of its own
InitIn(batches, roots, places, f) ==
    /\ docs \in batches
    /\ root \in roots
    /\ folderOf \in places
    /\ prefix = [d \in Docs |-> NO_PREFIX]
    /\ base = [d \in Docs |-> d]
    /\ exists = [d \in Docs |-> TRUE]
    /\ InitRuns(f)

\* the same, all documents lying in the one week folder of the root
InitOf(batches, f) == InitIn(batches, {DefaultRoot}, {[d \in Docs |-> 1]}, f)

Init == InitOf([Docs -> DocShapes], 0)

\* ------------------------------------------------------------------------
\* File names and discovery (process_folder:217)
\* ------------------------------------------------------------------------
\* f.endswith('_analysis.json') or COMBINED_REPORT_FILENAME in f
MatchesConvention(name) == name.endsAnalysis \/ name.hasCombined

\* variant: only the success marker is tested
IsMarkedStoredOnly(p) == p = PROCESSED_PREFIX

\* f.startswith((PROCESSED_PREFIX, FAILED_PREFIX))
IsMarked(p) == p \in {PROCESSED_PREFIX, FAILED_PREFIX}

\* files_to_process, in directory order
Discover(ds, pre) ==
    Ascending({d \in DOMAIN ds : MatchesConvention(ds[d].name) /\ ~IsMarked(pre[d])})

\* extract_extension_from_path: the 4-digit directory below the week folder
extract_extension_from_path(doc) == doc.ext


\* ------------------------------------------------------------------------
\* Reference resolution
\* ------------------------------------------------------------------------
\* variant: the insert without the lookup by extension
get_or_create_agent_NoLookup(view, agent_details, nid) ==
    {[id |-> nid,
      rows |-> {[id |-> nid, name |-> agent_details.full_name,
                 email |-> agent_details.email, ext |-> agent_details.extension]},
      next |-> nid + 1]}

\* get_or_create_agent against the rows the cursor sees; nid is the identity
\* the store issues next.  The set of possible results: the key returned
\* (0: None), the rows inserted, the identity left.
get_or_create_agent(view, agent_details, nid) ==
    IF agent_details.full_name = "" \/ agent_details.extension = ""
    THEN {[id |-> 0, rows |-> {}, next |-> nid]}
    ELSE LET found == {a \in view : a.ext = agent_details.extension}
         IN IF found # {}
            THEN {[id |-> a.id, rows |-> {}, next |-> nid] : a \in found}
            ELSE {[id |-> nid,
                   rows |-> {[id |-> nid, name |-> agent_details.full_name,
                              email |-> agent_details.email,
                              ext |-> agent_details.extension]},
                   next |-> nid + 1]}

\* the orders in which a set can be iterated
Orders(S) ==
    {f \in [1..Cardinality(S) -> S] : \A i, j \in 1..Cardinality(S) : f[i] = f[j] => i = j}

\* sql_select and the loop filling qp_map: text -> key of a row with that text
SelectMaps(view, texts) ==
    LET rows == {q \in view : q.text \in texts}
        dom == {q.text : q \in rows}
    IN {m \in [dom -> {q.id : q \in rows}] :
           \A t \in dom : \E q \in rows : q.text = t /\ q.id = m[t]}

\* variant: the labels are not stripped
SanitizeNoStrip(qp_texts) == {x \in qp_texts : x # <<>>}

\* the comprehension of line 141
Sanitize(qp_texts) == {Strip(text) : text \in {x \in qp_texts : x # <<>>}}

\* the rows executemany inserts for new_qps, iterated in the given order
NewQpRows(order, nid) ==
    {[id |-> nid + i - 1, text |-> order[i], bonus |-> IsBonus(order[i])] :
        i \in DOMAIN order}

\* variant: the dict is keyed by the stripped labels
ReturnedMapStrippedKeys(qp_texts, qp_map) ==
    [text \in {Strip(x) : x \in {y \in qp_texts : Strip(y) \in DOMAIN qp_map}} |-> qp_map[text]]

\* the dict returned at line 157
ReturnedMap(qp_texts, qp_map) ==
    [orig_text \in {x \in qp_texts : Strip(x) \in DOMAIN qp_map} |-> qp_map[Strip(orig_text)]]

\* get_or_create_quality_points: the possible results (mapping returned, rows
\* inserted, identity left)
get_or_create_quality_points(view, qp_texts, nid) ==
    LET sanitized_qp_texts == Sanitize(qp_texts)
    IN IF sanitized_qp_texts = {}
       THEN {[map |-> EmptyMap, rows |-> {}, next |-> nid]}
       ELSE UNION {
              LET new_qps == sanitized_qp_texts \ DOMAIN m1
              IN IF new_qps = {}
                 THEN {[map |-> ReturnedMap(qp_texts, m1), rows |-> {}, next |-> nid]}
                 ELSE UNION {
                        LET rows == NewQpRows(order, nid)
                        IN {[map |-> ReturnedMap(qp_texts, m2), rows |-> rows,
                             next |-> nid + Cardinality(new_qps)] :
                              m2 \in SelectMaps(view \cup rows, sanitized_qp_texts)}
                        : order \in Orders(new_qps)}
              : m1 \in SelectMaps(view, sanitized_qp_texts)}

\* process_folder:244-245
AllQps(doc) ==
    {doc.eval[i].s : i \in {j \in DOMAIN doc.eval : Truthy(doc.eval[j])}}
    \cup {doc.qpa[i].s : i \in {j \in DOMAIN doc.qpa : Truthy(doc.qpa[j])}}

\* ------------------------------------------------------------------------
\* The rows of one document
\* ------------------------------------------------------------------------
\* variant: the shape is chosen by what the document holds
IsCombinedByContent(doc) == doc.qpa # <<>>

\* COMBINED_REPORT_FILENAME in base_name
IsCombined(doc) == doc.name.hasCombined

\* item.get('quality_point', '').strip() raises on a null
ItemsRaise(items) == \E i \in DOMAIN items : items[i].t = "null"

\* variant: a row for every item, without the test that its label has a key
ItemRowsUnfiltered(table, parent, items, qp_map) ==
    {[table |-> table, parent |-> parent,
      qp |-> MapGet(qp_map, Strip(items[i].s)), item |-> i] : i \in DOMAIN items}

\* eval_params / qp_params: one row per item whose stripped label has a key
ItemRows(table, parent, items, qp_map) ==
    {[table |-> table, parent |-> parent,
      qp |-> MapGet(qp_map, Strip(items[i].s)), item |-> i] :
        i \in {j \in DOMAIN items : MapGet(qp_map, Strip(items[j].s)) # 0}}

\* variant: the timestamp is taken anew at each insert
TopRowStampedAtInsert(id, d, doc, agent_id, stamp, r) ==
    [id |-> id, table |-> IF doc.name.hasCombined THEN "CombinedAnalyses" ELSE "IndividualCallAnalyses",
     doc |-> d, agent |-> agent_id, ts |-> stamp + id, run |-> r]

\* the top-level row; doc names the document it was read from
TopRow(id, d, doc, agent_id, stamp, r) ==
    [id |-> id, table |-> IF IsCombined(doc) THEN "CombinedAnalyses" ELSE "IndividualCallAnalyses",
     doc |-> d, agent |-> agent_id, ts |-> stamp, run |-> r]

\* the child rows of process_individual_json / process_combined_json
ChildRows(id, doc, qp_map) ==
    IF IsCombined(doc)
    THEN {[table |-> "CombinedAnalysisStrengths", parent |-> id, qp |-> 0, item |-> i] :
             i \in 1..doc.strengths}
         \cup ItemRows("CombinedAnalysisQualityPointDetails", id, doc.qpa, qp_map)
    ELSE ItemRows("IndividualEvaluationItems", id, doc.eval, qp_map)

ChildItems(doc) == IF IsCombined(doc) THEN doc.qpa ELSE doc.eval

\* variant: the handler leaves the uncommitted writes on the connection
RollbackSkipped(t) == t

\* conn.rollback(): the uncommitted writes are discarded
Rollback(t) == EmptyTx


\* shutil.move(file_path, <marker + base_name> in the same directory): the
\* files at the destination path, which the move replaces
Overwritten(d, marker) ==
    {e \in Docs \ {d} : /\ exists[e]
                         /\ folderOf[e] = folderOf[d]
                         /\ docs[e].ext = docs[d].ext
                         /\ base[e] = base[d]
                         /\ prefix[e] = marker}

\* ------------------------------------------------------------------------
\* Actions: main and process_folder, one run r
\* ------------------------------------------------------------------------
Active(r) == pc[r] \notin {"idle", "done"}

\* back at the head of the for loop, the locals of the iteration dropped
LoopAgain(r) ==
    /\ cur' = [cur EXCEPT ![r] = 0]
    /\ agentId' = [agentId EXCEPT ![r] = 0]
    /\ qpMap' = [qpMap EXCEPT ![r] = EmptyMap]
    /\ analysisId' = [analysisId EXCEPT ![r] = 0]

\* os.walk(target_folder): the discovered files that lie under the folder
FilesUnder(target_folder, files) ==
    SelectSeq(files, LAMBDA d : exists[d] /\ folderOf[d] = target_folder)

\* main:281-285 and process_folder:216-226: discovery, connection, timestamp
StartRun(r) ==
    /\ pc[r] = "idle"
    /\ \E target_folder \in find_latest_week_folder(root) :
          IF target_folder = NO_FOLDER
          THEN \* main:282-283: no folder to process
               /\ pc' = [pc EXCEPT ![r] = "done"]
               /\ UNCHANGED <<discovered, queue, ts, clock, faults>>
          ELSE LET files_to_process == FilesUnder(target_folder, Discover(docs, prefix))
               IN /\ discovered' = [discovered EXCEPT ![r] = {files_to_process[i] : i \in DOMAIN files_to_process}]
                  /\ \/ /\ files_to_process = <<>>
                        /\ pc' = [pc EXCEPT ![r] = "done"]
                        /\ UNCHANGED <<queue, ts, clock, faults>>
                     \/ /\ files_to_process # <<>>
                        /\ pc' = [pc EXCEPT ![r] = "loop"]
                        /\ queue' = [queue EXCEPT ![r] = files_to_process]
                        /\ ts' = [ts EXCEPT ![r] = clock]
                        /\ clock' = clock + 1
                        /\ UNCHANGED faults
                     \/ \* get_db_connection raises: the outer handler ends the run
                        /\ files_to_process # <<>>
                        /\ faults < MaxFaults
                        /\ faults' = faults + 1
                        /\ pc' = [pc EXCEPT ![r] = "done"]
                        /\ UNCHANGED <<queue, ts, clock>>
    /\ UNCHANGED <<aiVars, fsVars, storeVars, idVars, cur, tx, agentId, qpMap, analysisId,
                   stage, snap, succeeded, failed, issued, kept>>

\* process_folder:228-240: next file, its extension, open and json.load
BeginDoc(r) ==
    /\ pc[r] = "loop"
    /\ queue[r] # <<>>
    /\ LET d == Head(queue[r])
       IN /\ queue' = [queue EXCEPT ![r] = Tail(queue[r])]
          /\ snap' = [snap EXCEPT ![r] = Store]
          /\ IF extract_extension_from_path(docs[d]) = "none"
             THEN \* logged, then continue
                  /\ stage' = [stage EXCEPT ![r] = "extension"]
                  /\ failed' = [failed EXCEPT ![r] = @ \cup {d}]
                  /\ UNCHANGED <<pc, cur>>
             ELSE /\ cur' = [cur EXCEPT ![r] = d]
                  /\ UNCHANGED failed
                  /\ IF prefix[d] = NO_PREFIX /\ docs[d].jsonOk
                     THEN /\ pc' = [pc EXCEPT ![r] = "agent"]
                          /\ stage' = [stage EXCEPT ![r] = "none"]
                     ELSE /\ pc' = [pc EXCEPT ![r] = "except"]
                          /\ stage' = [stage EXCEPT ![r] = "read"]
    /\ UNCHANGED <<aiVars, fsVars, storeVars, idVars, clock, tx, agentId, qpMap, analysisId, ts,
                   discovered, succeeded, issued, kept, faultVars>>

\* process_folder:241-242
ResolveAgent(r) ==
    /\ pc[r] = "agent"
    /\ \E res \in get_or_create_agent(agents \cup tx[r].agents,
                                      AgentDetails(extract_extension_from_path(docs[cur[r]])),
                                      nextAgentId) :
          /\ tx' = [tx EXCEPT ![r].agents = @ \cup res.rows]
          /\ nextAgentId' = res.next
          /\ agentId' = [agentId EXCEPT ![r] = res.id]
          /\ IF res.id = 0
             THEN \* raise ValueError
                  /\ pc' = [pc EXCEPT ![r] = "except"]
                  /\ stage' = [stage EXCEPT ![r] = "agent"]
                  /\ UNCHANGED issued
             ELSE /\ pc' = [pc EXCEPT ![r] = "qps"]
                  /\ issued' = issued \cup {<<docs[cur[r]].ext, res.id>>}
                  /\ UNCHANGED stage
    /\ UNCHANGED <<aiVars, fsVars, storeVars, nextQpId, nextAnalysisId, clock, queue, cur, qpMap,
                   analysisId, ts, snap, succeeded, discovered, failed, kept, faultVars>>

\* process_folder:244-246
ResolveQPs(r) ==
    /\ pc[r] = "qps"
    /\ \E res \in get_or_create_quality_points(qps \cup tx[r].qps, AllQps(docs[cur[r]]), nextQpId) :
          /\ tx' = [tx EXCEPT ![r].qps = @ \cup res.rows]
          /\ nextQpId' = res.next
          /\ qpMap' = [qpMap EXCEPT ![r] = res.map]
    /\ pc' = [pc EXCEPT ![r] = "top"]
    /\ UNCHANGED <<aiVars, fsVars, storeVars, nextAgentId, nextAnalysisId, clock, queue, cur, agentId,
                   analysisId, ts, histVars, faultVars>>

\* process_individual_json:164-173 / process_combined_json:184-191
InsertTop(r) ==
    /\ pc[r] = "top"
    /\ tx' = [tx EXCEPT ![r].analyses =
                 @ \cup {TopRow(nextAnalysisId, cur[r], docs[cur[r]], agentId[r], ts[r], r)}]
    /\ analysisId' = [analysisId EXCEPT ![r] = nextAnalysisId]
    /\ nextAnalysisId' = nextAnalysisId + 1
    /\ pc' = [pc EXCEPT ![r] = "children"]
    /\ UNCHANGED <<aiVars, fsVars, storeVars, nextAgentId, nextQpId, clock, queue, cur, agentId, qpMap,
                   ts, histVars, faultVars>>

\* process_individual_json:175-180 / process_combined_json:193-209
InsertChildren(r) ==
    /\ pc[r] = "children"
    /\ IF ItemsRaise(ChildItems(docs[cur[r]]))
       THEN /\ pc' = [pc EXCEPT ![r] = "except"]
            /\ stage' = [stage EXCEPT ![r] = "children"]
            /\ UNCHANGED tx
       ELSE /\ tx' = [tx EXCEPT ![r].children =
                        @ \cup ChildRows(analysisId[r], docs[cur[r]], qpMap[r])]
            /\ pc' = [pc EXCEPT ![r] = "commit"]
            /\ UNCHANGED stage
    /\ UNCHANGED <<aiVars, fsVars, storeVars, idVars, clock, queue, cur, agentId, qpMap, analysisId,
                   ts, snap, succeeded, discovered, failed, issued, kept, faultVars>>

\* process_folder:253, conn.commit()
Commit(r) ==
    /\ pc[r] = "commit"
    /\ agents' = agents \cup tx[r].agents
    /\ qps' = qps \cup tx[r].qps
    /\ analyses' = analyses \cup tx[r].analyses
    /\ children' = children \cup tx[r].children
    /\ tx' = [tx EXCEPT ![r] = EmptyTx]
    /\ kept' = kept \cup {<<docs[cur[r]].ext, agentId[r]>>}
    /\ pc' = [pc EXCEPT ![r] = "move"]
    /\ UNCHANGED <<aiVars, fsVars, idVars, clock, queue, cur, agentId, qpMap, analysisId, ts,
                   stage, snap, succeeded, discovered, failed, issued, faultVars>>

\* a statement of the transaction (lines 241-253) raises: connectivity lost,
\* constraint violated
DbFault(r) ==
    /\ pc[r] \in {"agent", "qps", "top", "children", "commit"}
    /\ faults < MaxFaults
    /\ faults' = faults + 1
    /\ stage' = [stage EXCEPT ![r] = pc[r]]
    /\ pc' = [pc EXCEPT ![r] = "except"]
    /\ UNCHANGED <<aiVars, fsVars, storeVars, idVars, clock, queue, cur, tx, agentId, qpMap,
                   analysisId, ts, snap, succeeded, discovered, failed, issued, kept>>

\* process_folder:254-255, the rename to the success marker
MarkStored(r) ==
    /\ pc[r] = "move"
    /\ \/ /\ prefix[cur[r]] = NO_PREFIX
          /\ prefix' = [prefix EXCEPT ![cur[r]] = PROCESSED_PREFIX]
          /\ exists' = [e \in Docs |-> exists[e] /\ e \notin Overwritten(cur[r], PROCESSED_PREFIX)]
          /\ succeeded' = [succeeded EXCEPT ![r] = @ \cup {cur[r]}]
          /\ pc' = [pc EXCEPT ![r] = "loop"]
          /\ LoopAgain(r)
          /\ UNCHANGED <<stage, faults>>
       \/ \* shutil.move raises
          /\ \/ prefix[cur[r]] # NO_PREFIX /\ UNCHANGED faults
             \/ /\ prefix[cur[r]] = NO_PREFIX
                /\ faults < MaxFaults
                /\ faults' = faults + 1
          /\ stage' = [stage EXCEPT ![r] = "move"]
          /\ pc' = [pc EXCEPT ![r] = "except"]
          /\ UNCHANGED <<prefix, exists, cur, agentId, qpMap, analysisId, succeeded>>
    /\ UNCHANGED <<aiVars, docs, root, folderOf, base, storeVars, idVars, clock, queue, tx, ts, snap, discovered, failed,
                   issued, kept>>

\* process_folder:256-261, the handler of the per-document try
HandleFailure(r) ==
    /\ pc[r] = "except"
    /\ failed' = [failed EXCEPT ![r] = @ \cup {cur[r]}]
    /\ \/ \* rollback, then the rename to the failure marker
          /\ tx' = [tx EXCEPT ![r] = Rollback(tx[r])]
          /\ \/ /\ prefix[cur[r]] = NO_PREFIX
                /\ prefix' = [prefix EXCEPT ![cur[r]] = FAILED_PREFIX]
                /\ exists' = [e \in Docs |-> exists[e] /\ e \notin Overwritten(cur[r], FAILED_PREFIX)]
                /\ UNCHANGED faults
             \/ \* shutil.move raises: logged
                /\ \/ prefix[cur[r]] # NO_PREFIX /\ UNCHANGED faults
                   \/ /\ prefix[cur[r]] = NO_PREFIX
                      /\ faults < MaxFaults
                      /\ faults' = faults + 1
                /\ UNCHANGED <<prefix, exists>>
          /\ pc' = [pc EXCEPT ![r] = "loop"]
          /\ UNCHANGED queue
       \/ \* conn.rollback() raises: process_folder:263-266 ends the run, and
          \* closing the connection discards its uncommitted writes
          /\ faults < MaxFaults
          /\ faults' = faults + 1
          /\ tx' = [tx EXCEPT ![r] = EmptyTx]
          /\ pc' = [pc EXCEPT ![r] = "done"]
          /\ queue' = [queue EXCEPT ![r] = <<>>]
          /\ UNCHANGED <<prefix, exists>>
    /\ LoopAgain(r)
    /\ UNCHANGED <<aiVars, docs, root, folderOf, base, storeVars, idVars, clock, ts, stage, snap, succeeded, discovered, issued, kept>>

\* process_folder:266 after the last file: the connection is closed
FinishRun(r) ==
    /\ pc[r] = "loop"
    /\ queue[r] = <<>>
    /\ pc' = [pc EXCEPT ![r] = "done"]
    /\ UNCHANGED <<aiVars, fsVars, storeVars, idVars, clock, queue, cur, tx, agentId, qpMap,
                   analysisId, ts, histVars, faultVars>>

\* ------------------------------------------------------------------------
\* Runs that do not overlap: a run starts when no other one is under way
\* ------------------------------------------------------------------------
StartNextRun(r) ==
    /\ \A q \in Runs : ~Active(q)
    /\ \A q \in Runs : q < r => pc[q] = "done"
    /\ StartRun(r)

Next ==
    \E r \in Runs :
        \/ StartNextRun(r)
        \/ BeginDoc(r)
        \/ ResolveAgent(r)
        \/ ResolveQPs(r)
        \/ InsertTop(r)
        \/ InsertChildren(r)
        \/ Commit(r)
        \/ DbFault(r)
        \/ MarkStored(r)
        \/ HandleFailure(r)
        \/ FinishRun(r)

Spec == Init /\ [][Next]_vars


\* ------------------------------------------------------------------------
\* Properties
\* ------------------------------------------------------------------------
RowsOf(d) == {a \in analyses : a.doc = d}
\* the steps of an import between the start of its transaction and the commit
ImportSteps == {"agent", "qps", "top", "children"}
NoLaterRun(r) == \A q \in Runs : q > r => pc[q] = "idle"

\* C1: at every observable point a document either bears a terminal marker
\* and has its rows committed, or is Pending and the store holds no row from
\* it; a Pending document never has committed analysis rows.
C1_MarkerAndRowsAtomic ==
    \A d \in Docs :
        /\ prefix[d] = NO_PREFIX => RowsOf(d) = {}
        /\ prefix[d] = PROCESSED_PREFIX => RowsOf(d) # {}

\* C2: over non-overlapping runs each document is committed to the store at
\* most once, also when the rename to the success marker failed.
C2_CommittedAtMostOnce ==
    \A d \in Docs : Cardinality(RowsOf(d)) <= 1

\* C3: when an import failed at a step of its transaction (agent resolution,
\* quality-point resolution, top-level insert, child inserts) and process_folder
\* has handled the failure, the store holds exactly the rows it held before
\* the document was started, and no write of the document is left uncommitted
\* on the connection.
C3_FailedImportLeavesNoRow ==
    \A r \in Runs :
        (/\ stage[r] \in ImportSteps
         /\ \/ pc[r] = "loop"
            \/ pc[r] = "done" /\ NoLaterRun(r))
        => /\ Store = snap[r]
           /\ tx[r] = EmptyTx

\* the failure came after the top-level row was inserted, rows of an earlier
\* document being in the store
C3_Witness ==
    \E r \in Runs :
        /\ pc[r] = "loop"
        /\ stage[r] = "children"
        /\ snap[r].analyses # {}
        /\ nextAnalysisId > 1 + Cardinality(analyses)

\* a document that cannot be imported: unreadable, an item that raises, or
\* no agent linkage
Malformed(doc) ==
    \/ ~doc.jsonOk
    \/ ItemsRaise(ChildItems(doc))
    \/ extract_extension_from_path(doc) = "none"

\* C4: in a batch with one malformed document, whose store and file
\* operations all succeed, every other discovered document ends Stored with
\* its row and the malformed one ends BadData.
C4_BatchIsolation ==
    (/\ pc[1] = "done"
     /\ faults = 0
     /\ Cardinality({d \in discovered[1] : Malformed(docs[d])}) = 1)
    => \A d \in discovered[1] :
          IF Malformed(docs[d])
          THEN prefix[d] = FAILED_PREFIX
          ELSE prefix[d] = PROCESSED_PREFIX /\ RowsOf(d) # {}

\* C5: every discovered document whose processing failed, the one without an
\* extension included, bears the BadData marker when the run ends (no rename
\* having failed), and a later run does not discover it.
C5_FailedIsMarkedBadData ==
    \A r \in Runs :
        /\ (pc[r] = "done" /\ faults = 0)
           => \A d \in failed[r] : prefix[d] = FAILED_PREFIX
        /\ faults = 0
           => \A q \in Runs : q > r => failed[r] \cap discovered[q] = {}

\* C6: discovery leaves the directory as it is and selects what a second
\* discovery would select; a document that bears a marker keeps it, is not
\* selected by a run, is not taken up again and gets no further row.
C6_DiscoveryIdempotentMarkersFinal ==
    [][ /\ \A r \in Runs :
              (pc[r] = "idle" /\ pc'[r] # "idle")
              => /\ prefix' = prefix
                 /\ discovered'[r] = {d \in Docs : MatchesConvention(docs[d].name)
                                                   /\ prefix[d] = NO_PREFIX}
                 /\ LET again == Discover(docs', prefix')
                    IN discovered'[r] = {again[i] : i \in DOMAIN again}
        /\ \A d \in Docs :
              prefix[d] \in {PROCESSED_PREFIX, FAILED_PREFIX}
              => /\ prefix'[d] = prefix[d]
                 /\ {a \in analyses' : a.doc = d} = RowsOf(d)
                 /\ \A r \in Runs :
                       /\ d \in discovered'[r] => d \in discovered[r]
                       /\ cur'[r] = d => cur[r] = d
      ]_vars

\* a second run is under way, a document marked by the first run is not
\* among those it discovered
C6_Witness ==
    \E d \in Docs :
        /\ prefix[d] \in {PROCESSED_PREFIX, FAILED_PREFIX}
        /\ pc[2] = "agent"
        /\ d \notin discovered[2]
        /\ d \in discovered[1]

Functional(pairs) == \A p, q \in pairs : p[1] = q[1] => p[2] = q[2]
UniqueExtension(rows) == \A a, b \in rows : a.ext = b.ext => a = b

\* C7 as stated: whatever the imports (failed and rolled back ones included),
\* resolving the same extension always yields the same key, and Agents never
\* holds two rows with the same extension.
C7_SameKeyAlways ==
    /\ Functional(issued)
    /\ UniqueExtension(agents)

\* C7 amended: the resolutions of imports that committed yield one key per
\* extension, the key of the one committed Agents row with that extension; a
\* key issued in an import that was rolled back is gone with its row.
C7_SameKeyOnceCommitted ==
    /\ Functional(kept)
    /\ UniqueExtension(agents)
    /\ \A p \in kept : \E a \in agents : a.ext = p[1] /\ a.id = p[2]
    /\ \A r \in Runs : UniqueExtension(agents \cup tx[r].agents)
    /\ \A r \in Runs : pc[r] \in {"qps", "top", "children", "commit"}
          => \A a \in agents : a.ext = docs[cur[r]].ext => a.id = agentId[r]

\* two runs committed documents under one agent key, and a key issued in a
\* rolled-back import was dropped
C7_Witness ==
    /\ issued # kept
    /\ \E a, b \in analyses : a.run # b.run /\ a.agent = b.agent

UniqueText(rows) == \A a, b \in rows : Strip(a.text) = Strip(b.text) => a = b

\* C8: QualityPointsMaster holds at most one row per trimmed label; the
\* resolver inserts exactly one row for each trimmed label without a row and
\* none for a label that has one.
C8_OneRowPerTrimmedLabel ==
    /\ UniqueText(qps)
    /\ \A r \in Runs :
          /\ UniqueText(qps \cup tx[r].qps)
          /\ pc[r] = "top"
             => LET wanted == {Strip(l) : l \in AllQps(docs[cur[r]])}
                               \ {q.text : q \in qps}
                IN /\ {q.text : q \in tx[r].qps} = wanted
                   /\ Cardinality(tx[r].qps) = Cardinality(wanted)

\* the input held "T" and " T ", one row was inserted for them
C8_Witness ==
    \E r \in Runs :
        /\ pc[r] = "top"
        /\ {Tone, TonePadded} \subseteq AllQps(docs[cur[r]])
        /\ \E q \in tx[r].qps : q.text = Tone

\* C9: when the children of a document have been inserted, there is a child
\* row for every item whose label the resolver mapped to a key.
C9_ResolvedItemsInserted ==
    \A r \in Runs :
        pc[r] = "commit"
        => LET items == ChildItems(docs[cur[r]])
           IN \A i \in DOMAIN items :
                 items[i].s \in DOMAIN qpMap[r]
                 => \E c \in tx[r].children :
                       /\ c.parent = analysisId[r]
                       /\ c.item = i
                       /\ c.qp = qpMap[r][items[i].s]

\* C10: the mapping returned is keyed by the labels as supplied, each mapped
\* to the key of the row whose text is the stripped label; labels equal after
\* stripping share a key; a label without a row is absent.
C10_MapKeyedByOriginalLabels ==
    \A r \in Runs :
        pc[r] = "top"
        => LET view == qps \cup tx[r].qps
               labels == AllQps(docs[cur[r]])
           IN /\ DOMAIN qpMap[r] = {l \in labels : \E q \in view : q.text = Strip(l)}
              /\ \A l \in DOMAIN qpMap[r] :
                    \E q \in view : q.text = Strip(l) /\ q.id = qpMap[r][l]
              /\ \A l, m \in DOMAIN qpMap[r] :
                    Strip(l) = Strip(m) => qpMap[r][l] = qpMap[r][m]

\* "T" and " T " were supplied and got the same key
C10_Witness ==
    \E r \in Runs :
        /\ pc[r] = "top"
        /\ {Tone, TonePadded} \subseteq DOMAIN qpMap[r]
        /\ qpMap[r][Tone] = qpMap[r][TonePadded]


QpTables == {"IndividualEvaluationItems", "CombinedAnalysisQualityPointDetails"}

\* the rows a set of tables holds are consistent: children point to an
\* analysis and (the item tables) to a quality point, analyses to an agent
ReferencesExist(t) ==
    /\ \A c \in t.children :
          /\ \E a \in t.analyses : a.id = c.parent
          /\ c.table \in QpTables => \E q \in t.qps : q.id = c.qp
    /\ \A a \in t.analyses : \E g \in t.agents : g.id = a.agent

\* what run r sees: the committed rows and its own uncommitted ones
ViewOf(r) ==
    [agents |-> agents \cup tx[r].agents, qps |-> qps \cup tx[r].qps,
     analyses |-> analyses \cup tx[r].analyses, children |-> children \cup tx[r].children]

\* C12: in every committed store state each item row references an existing
\* QualityPointsMaster row and an existing analysis row, each analysis row an
\* existing Agents row; within an import the agent and the quality points
\* are resolved before the top-level row is inserted (the references exist in
\* the transaction at every step), and children are inserted before commit.
C12_ReferencesExistBeforeCommit ==
    /\ ReferencesExist(Store)
    /\ \A r \in Runs :
          /\ ReferencesExist(ViewOf(r))
          /\ tx[r].analyses # {}
             => /\ pc[r] \in {"children", "commit", "except"}
                /\ agentId[r] # 0
                /\ \A l \in DOMAIN qpMap[r] :
                      \E q \in qps \cup tx[r].qps : q.id = qpMap[r][l]
          /\ tx[r].children # {} => pc[r] \in {"commit", "except"}
          /\ pc[r] \in {"move", "loop", "idle", "done"} => tx[r] = EmptyTx

\* an item row of a committed analysis references a committed quality point
\* that this import created
C12_Witness ==
    \E c \in children :
        /\ c.table \in QpTables
        /\ \E q \in qps : q.id = c.qp
        /\ \E a \in analyses : a.id = c.parent /\ \E g \in agents : g.id = a.agent
        /\ Cardinality(analyses) = 2

\* C13: the analysis rows, individual and combined, committed by one run
\* carry the timestamp the run computed before its first document, and rows
\* of different runs carry different timestamps.
C13_OneTimestampPerRun ==
    /\ \A a, b \in analyses : (a.run = b.run) <=> (a.ts = b.ts)
    /\ \A a \in analyses : a.ts = ts[a.run]
    /\ \A r \in Runs : \A a \in tx[r].analyses : a.ts = ts[r] /\ a.run = r

\* a run committed an individual and a combined row, another run a third row
C13_Witness ==
    \E a, b, c \in analyses :
        /\ a.run = b.run /\ a.table # b.table /\ a.ts = b.ts
        /\ c.run # a.run /\ c.ts # a.ts

\* the characters of "[BONUS]", each in either case
MarkerChars ==
    << {"["}, {"b", "B"}, {"o", "O"}, {"n", "N"}, {"u", "U"}, {"s", "S"}, {"]"} >>

HasMarker(text) ==
    \E i \in 0..(Len(text) - Len(MarkerChars)) :
        \A j \in 1..Len(MarkerChars) : text[i + j] \in MarkerChars[j]

\* C20: a QualityPointsMaster row has the bonus flag exactly when its text
\* holds "[BONUS]" in any letter case, and a row once committed keeps its
\* text and its flag.
C20_BonusFlagAtCreation ==
    /\ [](\A q \in qps : q.bonus <=> HasMarker(q.text))
    /\ [](\A r \in Runs : \A q \in tx[r].qps : q.bonus <=> HasMarker(q.text))
    /\ [][\A q \in qps : q \in qps']_vars

\* a row with the flag (its marker in lower case) and one without, and a
\* later import that uses the flagged row
C20_Witness ==
    /\ \E q \in qps : q.bonus /\ q.text = BonusUpsell
    /\ \E q \in qps : ~q.bonus
    /\ \E r \in Runs : pc[r] = "top" /\ BonusUpsell \in DOMAIN qpMap[r] /\ tx[r].qps = {}


\* ------------------------------------------------------------------------
\* Batches whose documents carry blank and empty labels
\* ------------------------------------------------------------------------
InitLabels == InitOf([Docs -> LabelShapes], 0)

SpecLabels == InitLabels /\ [][Next]_vars

IsBlank(l) == Strip(l) = <<>>

\* C11: an empty or whitespace-only label gets no key in the mapping
\* returned, no QualityPointsMaster row (none with empty text) is created
\* for it, and no child row is inserted for an item carrying it.
C11_BlankLabelDiscarded ==
    /\ \A q \in qps : q.text # <<>>
    /\ \A r \in Runs :
          /\ \A q \in tx[r].qps : q.text # <<>>
          /\ \A l \in DOMAIN qpMap[r] : ~IsBlank(l)
          /\ pc[r] = "commit"
             => LET items == ChildItems(docs[cur[r]])
                IN \A c \in tx[r].children :
                      c.table \in QpTables => ~IsBlank(items[c.item].s)


\* ------------------------------------------------------------------------
\* Runs that may be terminated
\* ------------------------------------------------------------------------
\* the process of run r is terminated wherever it stands: its connection is
\* gone and the store discards the writes it had not committed
Kill(r) ==
    /\ Active(r)
    /\ pc' = [pc EXCEPT ![r] = "done"]
    /\ queue' = [queue EXCEPT ![r] = <<>>]
    /\ tx' = [tx EXCEPT ![r] = EmptyTx]
    /\ LoopAgain(r)
    /\ UNCHANGED <<aiVars, fsVars, storeVars, idVars, clock, ts, histVars, faultVars>>

NextKill == Next \/ \E r \in Runs : Kill(r)

SpecKill == Init /\ [][NextKill]_vars

\* C14: when runs are terminated and a following run completes, with no
\* store or file operation failing, no document has two sets of rows or
\* partial rows, and the termination itself changes no file name and no
\* committed row.
C14_ResumeAfterTermination ==
    faults = 0
    => /\ \A d \in Docs : Cardinality(RowsOf(d)) <= 1
       /\ ReferencesExist(Store)
       /\ \A r \in Runs : pc[r] = "done" => tx[r] = EmptyTx


\* ------------------------------------------------------------------------
\* A run, once started, keeps executing
\* ------------------------------------------------------------------------
RunStep(r) ==
    \/ BeginDoc(r) \/ ResolveAgent(r) \/ ResolveQPs(r) \/ InsertTop(r)
    \/ InsertChildren(r) \/ Commit(r) \/ MarkStored(r) \/ HandleFailure(r)
    \/ FinishRun(r)

FairSpec == Spec /\ WF_vars(\E r \in Runs : RunStep(r))

\* run r imported document d: a row of r for it is committed
ImportedBy(r, d) == \E a \in analyses : a.doc = d /\ a.run = r

\* C17: whatever failure arises while a document is handled, the rollback
\* raising included, the loop goes on: when a run that entered the loop has
\* ended, each document it discovered was attempted (it failed or was
\* imported by the run).
C17_FailureStaysInLoop ==
    \A r \in Runs :
        (pc[r] = "done" /\ ts[r] # 0)
        => \A d \in discovered[r] : d \in failed[r] \/ ImportedBy(r, d)

AllValid == \A d \in Docs : ~Malformed(docs[d])

TableFor(doc) ==
    IF doc.name.hasCombined THEN "CombinedAnalyses" ELSE "IndividualCallAnalyses"

\* the result of a run over valid documents, no operation having failed
C19_Final ==
    (faults = 0 /\ AllValid /\ pc[1] = "done")
    => /\ discovered[1] = Docs
       /\ \A d \in Docs :
             /\ prefix[d] = PROCESSED_PREFIX
             /\ Cardinality(RowsOf(d)) = 1
             /\ \A a \in RowsOf(d) :
                   /\ a.table = TableFor(docs[d])
                   /\ \E g \in agents : g.id = a.agent /\ g.ext = docs[d].ext
       /\ UniqueExtension(agents)
       /\ {g.ext : g \in agents} = {docs[d].ext : d \in Docs}

MainRoots ==
    { [state |-> "missing", entries |-> {}],
      [state |-> "unreadable", entries |-> {WeekEntry(1, TRUE, TRUE, 1)}],
      [state |-> "ok", entries |-> {}],
      [state |-> "ok", entries |-> {WeekEntry(1, TRUE, TRUE, 0)}],
      [state |-> "ok", entries |-> {WeekEntry(1, TRUE, FALSE, 1), WeekEntry(2, FALSE, TRUE, 2)}],
      [state |-> "ok", entries |-> {WeekEntry(1, TRUE, TRUE, 1), WeekEntry(2, TRUE, TRUE, 2)}],
      [state |-> "ok", entries |-> {WeekEntry(1, TRUE, TRUE, 2), WeekEntry(2, TRUE, TRUE, 0)}] }

MainShapes ==
    { Doc(IndividualName, "1001", TRUE, <<JStr(Tone), JStr(TonePadded)>>, <<>>, 0),
      Doc(CombinedName, "1002", TRUE, <<>>, <<JStr(Tone), JStr(BonusUpsell)>>, 1) }

InitMain == InitIn([Docs -> MainShapes], MainRoots, [Docs -> {1, 2}], 0)

SpecMain == InitMain /\ [][Next]_vars

\* the root is missing or unreadable, or holds no directory with a name of
\* the convention and a valid date
NoBatchDirectory ==
    \/ root.state # "ok"
    \/ \A e \in root.entries : ~(e.isDir /\ e.matches /\ e.date > 0)

\* C18: when no batch directory can be discovered a run processes nothing:
\* no store write, committed or open, no identity consumed, no file renamed,
\* every document still Pending.
C18_NoDirectoryNothingProcessed ==
    NoBatchDirectory
    => /\ Store = EmptyTx
       /\ prefix = [d \in Docs |-> NO_PREFIX]
       /\ nextAgentId = 1 /\ nextQpId = 1 /\ nextAnalysisId = 1
       /\ \A r \in Runs :
             /\ pc[r] \in {"idle", "done"}
             /\ tx[r] = EmptyTx
             /\ discovered[r] = {}

\* two runs have ended on a root whose only week folder has an invalid date
C18_Witness ==
    /\ NoBatchDirectory
    /\ root.state = "ok"
    /\ root.entries # {}
    /\ \A r \in Runs : pc[r] = "done"


\* ------------------------------------------------------------------------
\* Overlapping runs: each run on its own connection, the SELECT and the
\* INSERT of a resolver separate statements
\* ------------------------------------------------------------------------
\* another connection holds an uncommitted row with the key: the INSERT waits
\* for that transaction to end
AgentHeld(r, ext) == \E q \in Runs \ {r} : \E a \in tx[q].agents : a.ext = ext
QpHeld(r, texts) == \E q \in Runs \ {r} : \E x \in tx[q].qps : x.text \in texts

\* the uniqueness constraints of the store: the INSERT is refused
AgentUniqueViolation(ext) == \E a \in agents : a.ext = ext
QpUniqueViolation(texts) == \E x \in qps : x.text \in texts

\* get_or_create_agent:128-132, up to the SELECT
SelectAgent(r) ==
    /\ pc[r] = "agent"
    /\ \E res \in get_or_create_agent(agents \cup tx[r].agents,
                                      AgentDetails(extract_extension_from_path(docs[cur[r]])),
                                      nextAgentId) :
          IF res.rows # {}
          THEN \* no row found: the INSERT follows
               /\ pc' = [pc EXCEPT ![r] = "agent_insert"]
               /\ UNCHANGED <<agentId, stage, issued>>
          ELSE /\ agentId' = [agentId EXCEPT ![r] = res.id]
               /\ IF res.id = 0
                  THEN /\ pc' = [pc EXCEPT ![r] = "except"]
                       /\ stage' = [stage EXCEPT ![r] = "agent"]
                       /\ UNCHANGED issued
                  ELSE /\ pc' = [pc EXCEPT ![r] = "qps"]
                       /\ issued' = issued \cup {<<docs[cur[r]].ext, res.id>>}
                       /\ UNCHANGED stage
    /\ UNCHANGED <<aiVars, fsVars, storeVars, idVars, clock, queue, cur, tx, qpMap,
                   analysisId, ts, snap, succeeded, discovered, failed, kept, faultVars>>

\* get_or_create_agent:134-137, the INSERT; a refused INSERT is logged and
\* raised again
InsertAgent(r) ==
    /\ pc[r] = "agent_insert"
    /\ LET agent_details == AgentDetails(extract_extension_from_path(docs[cur[r]]))
       IN /\ ~AgentHeld(r, agent_details.extension)
          /\ IF AgentUniqueViolation(agent_details.extension)
             THEN /\ pc' = [pc EXCEPT ![r] = "except"]
                  /\ stage' = [stage EXCEPT ![r] = "agent_unique"]
                  /\ nextAgentId' = nextAgentId + 1
                  /\ UNCHANGED <<tx, agentId, issued>>
             ELSE \E res \in get_or_create_agent(agents \cup tx[r].agents, agent_details, nextAgentId) :
                     /\ tx' = [tx EXCEPT ![r].agents = @ \cup res.rows]
                     /\ nextAgentId' = res.next
                     /\ agentId' = [agentId EXCEPT ![r] = res.id]
                     /\ issued' = issued \cup {<<docs[cur[r]].ext, res.id>>}
                     /\ pc' = [pc EXCEPT ![r] = "qps"]
                     /\ UNCHANGED stage
    /\ UNCHANGED <<aiVars, fsVars, storeVars, nextQpId, nextAnalysisId, clock, queue, cur, qpMap,
                   analysisId, ts, snap, succeeded, discovered, failed, kept, faultVars>>

\* get_or_create_quality_points:141-149, up to the first SELECT; qp_map holds
\* the rows it returned
SelectQPs(r) ==
    /\ pc[r] = "qps"
    /\ LET qp_texts == AllQps(docs[cur[r]])
           sanitized_qp_texts == Sanitize(qp_texts)
       IN IF sanitized_qp_texts = {}
          THEN /\ qpMap' = [qpMap EXCEPT ![r] = EmptyMap]
               /\ pc' = [pc EXCEPT ![r] = "top"]
          ELSE \E m1 \in SelectMaps(qps \cup tx[r].qps, sanitized_qp_texts) :
                  IF sanitized_qp_texts \ DOMAIN m1 = {}
                  THEN /\ qpMap' = [qpMap EXCEPT ![r] = ReturnedMap(qp_texts, m1)]
                       /\ pc' = [pc EXCEPT ![r] = "top"]
                  ELSE /\ qpMap' = [qpMap EXCEPT ![r] = m1]
                       /\ pc' = [pc EXCEPT ![r] = "qps_insert"]
    /\ UNCHANGED <<aiVars, fsVars, storeVars, idVars, clock, queue, cur, tx, agentId,
                   analysisId, ts, histVars, faultVars>>

\* get_or_create_quality_points:150-159, executemany and the second SELECT; a
\* refused INSERT is logged and raised again
InsertQPs(r) ==
    /\ pc[r] = "qps_insert"
    /\ LET qp_texts == AllQps(docs[cur[r]])
           sanitized_qp_texts == Sanitize(qp_texts)
           new_qps == sanitized_qp_texts \ DOMAIN qpMap[r]
       IN /\ ~QpHeld(r, new_qps)
          /\ IF QpUniqueViolation(new_qps)
             THEN /\ pc' = [pc EXCEPT ![r] = "except"]
                  /\ stage' = [stage EXCEPT ![r] = "qps_unique"]
                  /\ nextQpId' = nextQpId + 1
                  /\ UNCHANGED <<tx, qpMap>>
             ELSE \E order \in Orders(new_qps) :
                     LET rows == NewQpRows(order, nextQpId)
                     IN \E m2 \in SelectMaps(qps \cup tx[r].qps \cup rows, sanitized_qp_texts) :
                           /\ tx' = [tx EXCEPT ![r].qps = @ \cup rows]
                           /\ nextQpId' = nextQpId + Cardinality(new_qps)
                           /\ qpMap' = [qpMap EXCEPT ![r] = ReturnedMap(qp_texts, m2)]
                           /\ pc' = [pc EXCEPT ![r] = "top"]
                           /\ UNCHANGED stage
    /\ UNCHANGED <<aiVars, fsVars, storeVars, nextAgentId, nextAnalysisId, clock, queue, cur, agentId,
                   analysisId, ts, snap, succeeded, discovered, failed, issued, kept, faultVars>>

\* valid documents of one extension, and no failure of the store or of shutil.move other
\* than those the overlap itself brings about
OverlapShapes ==
    { Doc(IndividualName, "1001", TRUE, <<JStr(Tone)>>, <<>>, 0),
      Doc(CombinedName, "1001", TRUE, <<>>, <<JStr(Tone), JStr(BonusUpsell)>>, 1) }

InitOverlap == InitOf([Docs -> OverlapShapes], MaxFaults)

\* a run may start while another one is under way
NextOverlap ==
    \E r \in Runs :
        \/ StartRun(r)
        \/ BeginDoc(r)
        \/ SelectAgent(r)
        \/ InsertAgent(r)
        \/ SelectQPs(r)
        \/ InsertQPs(r)
        \/ InsertTop(r)
        \/ InsertChildren(r)
        \/ Commit(r)
        \/ MarkStored(r)
        \/ HandleFailure(r)
        \/ FinishRun(r)

SpecOverlap == InitOverlap /\ [][NextOverlap]_vars

\* C15: a run whose INSERT of an Agent row is refused by the uniqueness
\* constraint looks the extension up again instead of failing its document:
\* the refusal never reaches the handler of the per-document try.
C15_LoserRetriesLookup ==
    \A r \in Runs : ~(pc[r] = "except" /\ stage[r] = "agent_unique")

\* C16: QualityPointsMaster holds one row per label, and when the INSERT of a
\* quality-point label is refused by the uniqueness constraint the handler
\* rolls the document back, marks it BadData and returns to the loop with
\* the remaining documents still queued.
C16_QpRaceAbortsOnlyDocument ==
    /\ []UniqueText(qps)
    /\ [][\A r \in Runs :
            (pc[r] = "except" /\ stage[r] = "qps_unique" /\ pc'[r] # "except")
            => /\ tx'[r] = EmptyTx
               /\ prefix'[cur[r]] = FAILED_PREFIX
               /\ pc'[r] = "loop"
               /\ queue'[r] = queue[r]]_vars


\* ------------------------------------------------------------------------
\* What a run reports
\* ------------------------------------------------------------------------
\* main returns on every path and nothing calls sys.exit: the process ends
\* with exit code 0 whatever was imported
ExitStatus(r) == "success"

\* C21: a finished run has accounted for every discovered document exactly
\* once, as succeeded or as failed, and with at least one of each its status
\* is partial success.
C21_AccountedAndPartialStatus ==
    \A r \in Runs :
        pc[r] = "done"
        => /\ discovered[r] = succeeded[r] \cup failed[r]
           /\ succeeded[r] \cap failed[r] = {}
           /\ (succeeded[r] # {} /\ failed[r] # {}) => ExitStatus(r) = "partial success"


\* ------------------------------------------------------------------------
\* Files arriving under a name used before
\* ------------------------------------------------------------------------
\* a new report is written to the folder under the base name of document d;
\* no unmarked file of that name is there
Arrive(d) ==
    /\ ~exists[d]
    /\ prefix[d] = NO_PREFIX
    /\ Overwritten(d, NO_PREFIX) = {}
    /\ exists' = [exists EXCEPT ![d] = TRUE]
    /\ UNCHANGED <<aiVars, docs, prefix, root, folderOf, base, storeVars, idVars, clock, runVars,
                   histVars, faultVars>>

TwinShapes ==
    { Doc(IndividualName, "1001", TRUE, <<JStr(Tone), JStr(TonePadded)>>, <<>>, 0),
      Doc(IndividualName, "1001", FALSE, <<>>, <<>>, 0) }

\* one report on disk; the others, of the same base name and directory, yet
\* to be written
InitArrive ==
    /\ docs \in [Docs -> TwinShapes]
    /\ root = DefaultRoot
    /\ folderOf = [d \in Docs |-> 1]
    /\ prefix = [d \in Docs |-> NO_PREFIX]
    /\ base = [d \in Docs |-> 1]
    /\ exists = [d \in Docs |-> d = 1]
    /\ InitRuns(0)

NextArrive == Next \/ \E d \in Docs : Arrive(d)

SpecArrive == InitArrive /\ [][NextArrive]_vars

\* C22: no step deletes or overwrites a document: a file that is on disk is
\* still on disk after the step, under its name or that name with one marker.
C22_NoDocumentLost ==
    [][\A d \in Docs : exists[d] => exists'[d] /\ prefix'[d] \in {NO_PREFIX, PROCESSED_PREFIX, FAILED_PREFIX}]_vars


\* C23: when runs overlap on one directory no document is committed by two
\* of them: the committed analysis rows of a document come from one run.
C23_NoDocumentCommittedByBothRuns ==
    \A a, b \in analyses : a.doc = b.doc => a.run = b.run


\* C24: a document bears the success marker only with its rows committed, and
\* a document whose rows were committed never bears the BadData marker.
C24_MarkerFollowsOutcome ==
    \A d \in Docs :
        /\ prefix[d] = PROCESSED_PREFIX => RowsOf(d) # {}
        /\ RowsOf(d) # {} => prefix[d] # FAILED_PREFIX


\* C25: each document has its own transaction.  The handler of a failing
\* document discards that document's uncommitted writes and changes no
\* committed row nor another connection's writes; and the Agent and
\* QualityPoint rows committed earlier are the ones a later document is
\* imported under.
C25_RollbackOnlyCurrentDocument ==
    /\ [][\A r \in Runs :
            (pc[r] = "except" /\ pc'[r] # "except")
            => /\ Store' = Store
               /\ tx'[r] = EmptyTx
               /\ \A q \in Runs \ {r} : tx'[q] = tx[q]]_vars
    /\ [](\A r \in Runs :
            pc[r] \in {"top", "children", "commit"}
            => /\ \A a \in agents : a.ext = docs[cur[r]].ext => agentId[r] = a.id
               /\ \A x \in qps : \A l \in DOMAIN qpMap[r] :
                     x.text = Strip(l) => qpMap[r][l] = x.id)

\* a run has imported one document and then handled the failure of another
\* of the same extension, which had reached the child inserts
C25_Witness ==
    \E r \in Runs :
        /\ pc[r] = "loop"
        /\ stage[r] = "children"
        /\ succeeded[r] # {}
        /\ failed[r] # {}
        /\ \E d \in succeeded[r] : \E e \in failed[r] : docs[d].ext = docs[e].ext
        /\ agents # {}
        /\ qps # {}


\* ------------------------------------------------------------------------
\* get_or_create_agent called with details of every kind
\* ------------------------------------------------------------------------
\* a roster line may have an empty name or address column (parts[1].strip())
DetailSet ==
    [full_name : {"J. Rivera", "Jo Rivera", ""},
     email : {"jr@x", ""},
     extension : {"1001", "1002"}]

\* one call on the connection of run r, outside of any document
CallGetOrCreateAgent(r, agent_details) ==
    /\ pc[r] = "idle"
    /\ \E res \in get_or_create_agent(agents \cup tx[r].agents, agent_details, nextAgentId) :
          /\ tx' = [tx EXCEPT ![r].agents = @ \cup res.rows]
          /\ nextAgentId' = res.next
          /\ agentId' = [agentId EXCEPT ![r] = res.id]
    /\ UNCHANGED <<aiVars, fsVars, storeVars, nextQpId, nextAnalysisId, clock, pc, queue, cur, qpMap,
                   analysisId, ts, histVars, faultVars>>

InitResolve ==
    InitOf({[d \in Docs |-> Doc(IndividualName, "1001", TRUE, <<JStr(Tone)>>, <<>>, 0)]}, 0)

NextResolve == \E r \in Runs : \E agent_details \in DetailSet : CallGetOrCreateAgent(r, agent_details)

SpecResolve == InitResolve /\ [][NextResolve]_vars

\* C26: a call for an extension that has a row returns that row's key and
\* leaves the Agents rows as they are, whatever name and address it is given.
C26_ExistingAgentReturnedUnchanged ==
    [][\A r \in Runs : \A agent_details \in DetailSet :
          (/\ CallGetOrCreateAgent(r, agent_details)
           /\ \E a \in agents \cup tx[r].agents : a.ext = agent_details.extension)
          => /\ \E a \in agents \cup tx[r].agents :
                   a.ext = agent_details.extension /\ agentId'[r] = a.id
             /\ tx' = tx
             /\ agents' = agents]_vars


\* ------------------------------------------------------------------------
\* File names and contents of every kind
\* ------------------------------------------------------------------------
BothName == [endsAnalysis |-> TRUE, hasCombined |-> TRUE]
OtherName == [endsAnalysis |-> FALSE, hasCombined |-> FALSE]

NameShapes ==
    { Doc(IndividualName, "1001", TRUE, <<JStr(Tone)>>, <<>>, 0),
      Doc(IndividualName, "1001", TRUE, <<>>, <<JStr(Tone)>>, 1),
      Doc(CombinedName, "1001", TRUE, <<JStr(Tone)>>, <<>>, 0),
      Doc(BothName, "1001", TRUE, <<JStr(Tone)>>, <<>>, 0),
      Doc(OtherName, "1001", TRUE, <<JStr(Tone)>>, <<>>, 0) }

InitNames == InitOf([Docs -> NameShapes], 0)

SpecNames == InitNames /\ [][Next]_vars

CombinedTables == {"CombinedAnalyses", "CombinedAnalysisStrengths", "CombinedAnalysisQualityPointDetails"}

\* C27: a document's rows go to the combined tables if and only if its file
\* name contains the combined-report name, whatever it holds; and a run
\* discovers only files whose name matches a convention and bears no marker.
C27_RoutedByNameOnly ==
    /\ [](\A r \in Runs :
            /\ \A a \in analyses \cup tx[r].analyses :
                  /\ a.table \in CombinedTables <=> docs[a.doc].name.hasCombined
                  /\ \A c \in children \cup tx[r].children :
                        c.parent = a.id => (c.table \in CombinedTables <=> docs[a.doc].name.hasCombined)
            /\ \A d \in discovered[r] :
                  docs[d].name.endsAnalysis \/ docs[d].name.hasCombined)
    /\ [][\A r \in Runs :
            (pc[r] = "idle" /\ pc'[r] # "idle")
            => \A d \in discovered'[r] : prefix[d] = NO_PREFIX]_vars

\* a document with an individual name holding a combined report's sections
\* was committed as an individual analysis, while a marked file was on disk
C27_Witness ==
    /\ \E a \in analyses :
          /\ docs[a.doc].name = IndividualName
          /\ docs[a.doc].qpa # <<>>
          /\ a.table = "IndividualCallAnalyses"
    /\ \E r \in Runs : r > 1 /\ pc[r] # "idle"
    /\ \E d \in Docs : prefix[d] # NO_PREFIX


\* ------------------------------------------------------------------------
\* A root with several directories
\* ------------------------------------------------------------------------
\* two directories holding documents: both dated, one with an invalid date,
\* one with a name that does not match
WeekRoots ==
    { [state |-> "ok", entries |-> {WeekEntry(1, TRUE, TRUE, 1), WeekEntry(2, TRUE, TRUE, 2)}],
      [state |-> "ok", entries |-> {WeekEntry(1, TRUE, TRUE, 2), WeekEntry(2, TRUE, TRUE, 1)}],
      [state |-> "ok", entries |-> {WeekEntry(1, TRUE, TRUE, 1), WeekEntry(2, TRUE, TRUE, 0)}],
      [state |-> "ok", entries |-> {WeekEntry(1, TRUE, TRUE, 1), WeekEntry(2, TRUE, FALSE, 2)}] }

InitWeeks == InitIn([Docs -> MainShapes], WeekRoots, [Docs -> {1, 2}], 0)

SpecWeeks == InitWeeks /\ [][Next]_vars

\* the directories of the dated-folder convention whose date is valid and not
\* earlier than that of any other such directory
LatestDated ==
    {e.id : e \in {x \in root.entries :
                     /\ x.isDir /\ x.matches /\ x.date > 0
                     /\ \A y \in root.entries :
                           (y.isDir /\ y.matches /\ y.date > 0) => y.date <= x.date}}

\* C28: only the directory of the latest valid date is processed: a document
\* in any other directory is never discovered, imported or renamed.
C28_OnlyLatestFolderProcessed ==
    \A d \in Docs :
        folderOf[d] \notin LatestDated
        => /\ prefix[d] = NO_PREFIX
           /\ RowsOf(d) = {}
           /\ \A r \in Runs :
                 /\ d \notin discovered[r]
                 /\ cur[r] # d
                 /\ \A a \in tx[r].analyses : a.doc # d

\* two runs have ended; a document of the latest directory is Stored and one
\* lies in a directory of an invalid date, named after a later day
C28_Witness ==
    /\ \A r \in Runs : pc[r] = "done"
    /\ \E e \in root.entries : e.date = 0
    /\ \E d, o \in Docs :
          /\ folderOf[d] \in LatestDated
          /\ prefix[d] = PROCESSED_PREFIX
          /\ folderOf[o] \notin LatestDated


\* ------------------------------------------------------------------------
\* Documents of rostered and un-rostered extensions
\* ------------------------------------------------------------------------
RosterShapes ==
    { Doc(IndividualName, "1001", TRUE, <<JStr(Tone)>>, <<>>, 0),
      Doc(IndividualName, "1002", TRUE, <<JStr(Tone)>>, <<>>, 0),
      Doc(IndividualName, "1003", TRUE, <<JStr(Tone)>>, <<>>, 0) }

InitRoster == InitOf([Docs -> RosterShapes], 0)

SpecRoster == InitRoster /\ [][Next]_vars

\* C29: with no failure of the store or of a rename, a finished run has
\* imported every document it discovered under an Agent row of the
\* document's extension, be the extension in the roster or not; the row
\* bears the details of the roster entry if there is one.
C29_ImportedWhateverTheRoster ==
    \A r \in Runs :
        (pc[r] = "done" /\ faults = 0)
        => \A d \in discovered[r] :
              /\ d \notin failed[r]
              /\ \E a \in analyses : \E g \in agents :
                    /\ a.doc = d
                    /\ g.id = a.agent
                    /\ g.ext = docs[d].ext
                    /\ docs[d].ext \in DOMAIN Roster => g.name = Roster[docs[d].ext].full_name


\* ------------------------------------------------------------------------
\* AutoQA.call_ai_with_retry
\* ------------------------------------------------------------------------
MaxInvocations == 3   \* calls of call_ai_with_retry (one per audio file)

\* range(2)
ATTEMPTS == 2

\* what model.generate_content does: it returns, or raises one of the errors
\* of google.api_core.exceptions
Outcomes ==
    {"ok", "InternalServerError", "ServiceUnavailable", "ResourceExhausted",
     "InvalidArgument", "DeadlineExceeded"}

\* variant: every error is answered with another attempt
IsRetriableAny(outcome) == outcome # "ok"

\* the except clause of line 210
IsRetriable(outcome) ==
    outcome \in {"InternalServerError", "ServiceUnavailable", "ResourceExhausted"}

\* process_single_audio:323, the function is entered
Invoke ==
    /\ aiPc \in {"idle", "returned"}
    /\ invocations < MaxInvocations
    /\ invocations' = invocations + 1
    /\ aiPc' = "try"
    /\ attempt' = 0
    /\ aiCalls' = <<>>
    /\ response' = "pending"
    /\ UNCHANGED <<fsVars, storeVars, idVars, clock, runVars, histVars, faultVars>>

\* lines 205-215: one pass through the try
GenerateContent(outcome) ==
    /\ aiPc = "try"
    /\ aiCalls' = Append(aiCalls, outcome)
    /\ IF outcome = "ok"
       THEN /\ response' = "response"
            /\ aiPc' = "returned"
       ELSE IF IsRetriable(outcome)
            THEN /\ aiPc' = "sleep"
                 /\ UNCHANGED response
            ELSE /\ response' = "None"
                 /\ aiPc' = "returned"
    /\ UNCHANGED <<attempt, invocations,
                   fsVars, storeVars, idVars, clock, runVars, histVars, faultVars>>

\* line 212 and the head of the loop: after time.sleep(5) the next attempt,
\* or the loop is over
Sleep ==
    /\ aiPc = "sleep"
    /\ attempt' = attempt + 1
    /\ aiPc' = IF attempt + 1 < ATTEMPTS THEN "try" ELSE "exhausted"
    /\ UNCHANGED <<aiCalls, response, invocations,
                   fsVars, storeVars, idVars, clock, runVars, histVars, faultVars>>

\* lines 216-217
GiveUp ==
    /\ aiPc = "exhausted"
    /\ response' = "None"
    /\ aiPc' = "returned"
    /\ UNCHANGED <<attempt, aiCalls, invocations,
                   fsVars, storeVars, idVars, clock, runVars, histVars, faultVars>>

InitAI == InitOf({[d \in Docs |-> Doc(IndividualName, "1001", TRUE, <<JStr(Tone)>>, <<>>, 0)]}, 0)

NextAI ==
    \/ Invoke
    \/ \E outcome \in Outcomes : GenerateContent(outcome)
    \/ Sleep
    \/ GiveUp

SpecAI == InitAI /\ [][NextAI]_vars

\* every call of generate_content returns or raises, and the sleep ends
FairSpecAI ==
    SpecAI /\ WF_vars((\E outcome \in Outcomes : GenerateContent(outcome)) \/ Sleep \/ GiveUp)

\* C30: call_ai_with_retry makes at most two calls and returns: the response
\* of the first call that succeeds; a second call is made only after a
\* retriable error of the first; a non-retriable error ends it at once with
\* no response; two retriable errors end it with no response.
C30_Calls ==
    /\ Len(aiCalls) <= 2
    /\ \A i \in DOMAIN aiCalls :
          i < Len(aiCalls)
          => aiCalls[i] \in {"InternalServerError", "ServiceUnavailable", "ResourceExhausted"}
    /\ response = "response" <=> (aiCalls # <<>> /\ aiCalls[Len(aiCalls)] = "ok")
    /\ (aiCalls # <<>> /\ aiCalls[Len(aiCalls)] \in {"InvalidArgument", "DeadlineExceeded"})
          => (aiPc = "returned" /\ response = "None")
    /\ aiPc = "returned" => response # "pending"
    /\ (aiPc = "returned" /\ response = "None")
          => \/ aiCalls[Len(aiCalls)] \in {"InvalidArgument", "DeadlineExceeded"}
             \/ Len(aiCalls) = 2

C30_AtMostTwoCallsAndTerminates ==
    /\ []C30_Calls
    /\ (aiPc = "try") ~> (aiPc = "returned")

\* the function has returned no response after two retriable errors
C30_Witness ==
    /\ aiPc = "returned"
    /\ response = "None"
    /\ Len(aiCalls) = 2
    /\ aiCalls[2] = "ServiceUnavailable"

====
